---------------------------- MODULE Spec2Model ----------------------------
(***************************************************************************)
(* Leave accrual / usage / expiration engine of the attendance manager.    *)
(*                                                                         *)
(* Dates are triples <<year, month, day>>.  Amounts of leave are counted   *)
(* in half days (a full day is FullDay = 2 units, a half day is            *)
(* HalfDay = 1 unit), so that every amount the program handles as a float  *)
(* with one decimal (x.0 or x.5) is an integer here.  Entitlements         *)
(* returned by calculate_annual_leave / calculate_monthly_leave are in     *)
(* days, as in the source, and are converted with Halves where the source  *)
(* mixes them with usage.                                                  *)
(*                                                                         *)
(* Leave types: "annual" = '연차', "half" = '반차', "vacation" = '휴가',   *)
(* "monthly" = '월차'.  Remarks: "half_in" = '반차_출근',                  *)
(* "half_out" = '반차_퇴근', "vacation_in" = '휴가_출근', "" = none.       *)
(***************************************************************************)
EXTENDS Integers, Sequences, FiniteSets, TLC

VARIABLES
    today,          \* datetime.now().date()
    employee,       \* the employees row: [hire_date, on_list]
    attendance,     \* attendance_records rows of the employee
    leave_records,  \* leave_records rows of the employee
    expirations,    \* leave_expirations rows of the employee, in insertion order
    remaining_by_year, \* leave_remaining_by_year: year -> amount, NoValue when absent
    manual_values,  \* leave_manual_values rows: [year, column_index, manual_value]
    row,            \* the ledger row shown for the employee by the last refresh_data
    agg,            \* one run of the usage-aggregation loop over fetched rows
    batch,          \* a register of several employees and the table of the last pass over it
    editor          \* the attendance register window: [pending_changes, message]

vars == <<today, employee, attendance, leave_records, expirations,
          remaining_by_year, manual_values, row, agg, batch, editor>>

-----------------------------------------------------------------------------
(* Calendar arithmetic (datetime.date)                                     *)

IsLeap(y) == (y % 4 = 0 /\ y % 100 # 0) \/ y % 400 = 0

DaysInMonth(y, m) ==
    IF m = 2 THEN (IF IsLeap(y) THEN 29 ELSE 28)
    ELSE IF m \in {4, 6, 9, 11} THEN 30 ELSE 31

\* datetime(y, m, d) raises ValueError exactly when this is false
ValidDate(y, m, d) == m \in 1..12 /\ d >= 1 /\ d <= DaysInMonth(y, m)

RECURSIVE DaysBeforeMonth(_, _)
DaysBeforeMonth(y, m) ==
    IF m = 1 THEN 0 ELSE DaysBeforeMonth(y, m - 1) + DaysInMonth(y, m - 1)

\* date.toordinal()
Ordinal(dt) ==
    LET y == dt[1] - 1
    IN  y * 365 + (y \div 4) - (y \div 100) + (y \div 400)
        + DaysBeforeMonth(dt[1], dt[2]) + dt[3]

\* (a - b).days
DaysBetween(a, b) == Ordinal(a) - Ordinal(b)

\* a < b, a <= b on dates
DateLT(a, b) ==
    \/ a[1] < b[1]
    \/ a[1] = b[1] /\ a[2] < b[2]
    \/ a[1] = b[1] /\ a[2] = b[2] /\ a[3] < b[3]

DateLE(a, b) == a = b \/ DateLT(a, b)

\* dt - timedelta(days=1)
PrevDay(dt) ==
    IF dt[3] > 1 THEN <<dt[1], dt[2], dt[3] - 1>>
    ELSE IF dt[2] > 1 THEN <<dt[1], dt[2] - 1, DaysInMonth(dt[1], dt[2] - 1)>>
    ELSE <<dt[1] - 1, 12, 31>>

\* dt + timedelta(days=1)
NextDay(dt) ==
    IF dt[3] < DaysInMonth(dt[1], dt[2]) THEN <<dt[1], dt[2], dt[3] + 1>>
    ELSE IF dt[2] < 12 THEN <<dt[1], dt[2] + 1, 1>>
    ELSE <<dt[1] + 1, 1, 1>>

\* try: datetime(y, m, d) / except ValueError: datetime(y, m, d - 1)
AnniversaryIn(y, m, d) ==
    IF ValidDate(y, m, d) THEN <<y, m, d>> ELSE <<y, m, d - 1>>

\* anniversary(hire_date, n): the anniversary date the walks compute for year
\* offset n
Anniversary(hire, n) == AnniversaryIn(hire[1] + n, hire[2], hire[3])

-----------------------------------------------------------------------------
(* LeaveCalculator                                                         *)

Halves(days) == 2 * days

\* LeaveCalculator.is_one_year_or_more
is_one_year_or_more_strict(on_list, hire, target) ==
    IF on_list THEN TRUE
    ELSE DaysBetween(target, hire) > 365

is_one_year_or_more(on_list, hire, target) ==
    IF on_list THEN TRUE
    ELSE DaysBetween(target, hire) >= 365

\* months_passed as computed at lines 295-297, 952-954, 1306-1309
MonthsPassedNoDay(hire, target) ==
    (target[1] - hire[1]) * 12 + (target[2] - hire[2])

MonthsPassed(hire, target) ==
    LET m == (target[1] - hire[1]) * 12 + (target[2] - hire[2])
    IN  IF target[3] < hire[3] THEN m - 1 ELSE m

Min(a, b) == IF a < b THEN a ELSE b
Max(a, b) == IF a > b THEN a ELSE b

\* LeaveCalculator.calculate_monthly_leave
calculate_monthly_leave(hire, target) ==
    IF DaysBetween(target, hire) >= 365 THEN 0
    ELSE Min(MonthsPassed(hire, target), 11)

\* years_passed of calculate_annual_leave
YearsPassed(hire, target) ==
    LET y == target[1] - hire[1]
    IN  IF target[2] < hire[2] \/ (target[2] = hire[2] /\ target[3] < hire[3])
        THEN y - 1 ELSE y

\* LeaveCalculator.calculate_annual_leave
calculate_annual_leave(hire, target) ==
    LET years_passed == YearsPassed(hire, target)
    IN  IF years_passed < 1 THEN 0
        ELSE IF years_passed >= 3
             THEN Min(15 + ((years_passed - 3) \div 2) + 1, 25)
             ELSE Min(15, 25)


-----------------------------------------------------------------------------
(* Bounds of the model                                                     *)

\* hire dates of the employee
HireDates == {<<2023, 5, 30>>, <<2024, 2, 29>>, <<2025, 9, 1>>}

\* the values datetime.now().date() takes, in chronological order
Days == << <<2026, 3, 1>>, <<2026, 6, 15>>, <<2027, 6, 15>> >>

\* report years offered by year_combo that the model selects
SelYears == {2025, 2026, 2027}

\* dates on which the attendance register receives leave entries
EventDates == {<<2025, 10, 1>>, <<2026, 7, 1>>}

\* number of attendance rows with a leave entry
MaxEvents == 1

\* largest year offset n for which the tier table is evaluated
MaxN == 24

\* daily runs: hire dates, and the number of days the clock runs after hire
ClockHires == {<<2024, 2, 29>>, <<2024, 3, 10>>, <<2027, 3, 10>>}
ClockSpan == 367

\* usage-aggregation runs: length of the scanned table, dates in it
MaxRows == 3
AggDates == {<<2026, 3, 5>>, <<2026, 4, 5>>}

-----------------------------------------------------------------------------
(* Usage aggregation over attendance_records rows                          *)

FullDay == 2
HalfDay == 1

NoValue == -1000

\* the (leave_type, remarks) pairs save_changes writes for leave entries
LeaveMarks == {<<"annual", "">>, <<"half", "half_in">>, <<"vacation", "vacation_in">>}

AttRow(d, mark) == [work_date |-> d, leave_type |-> mark[1], remarks |-> mark[2]]

\* WHERE work_date >= ? AND work_date < ? AND (leave_type IN ('annual','half',
\* 'vacation') OR remarks IN ('half_in','half_out'))
InQuery(r, from, to) ==
    /\ DateLE(from, r.work_date) /\ DateLT(r.work_date, to)
    /\ \/ r.leave_type \in {"annual", "half", "vacation"}
       \/ r.remarks \in {"half_in", "half_out"}

\* WHERE ... AND leave_type IN ('annual','half','vacation')
InQueryType(r, from, to) ==
    /\ DateLE(from, r.work_date) /\ DateLT(r.work_date, to)
    /\ r.leave_type \in {"annual", "half", "vacation"}

\* one iteration of the loop over the fetched rows: acc = [amount, seen]
AggRowNoDedup(acc, r) ==
    IF r.leave_type = "annual" \/ r.leave_type = "vacation"
    THEN [acc EXCEPT !.amount = @ + FullDay]
    ELSE IF r.leave_type = "half" \/ r.remarks = "half_in" \/ r.remarks = "half_out"
         THEN [amount |-> acc.amount + HalfDay, seen |-> acc.seen \cup {r.work_date}]
         ELSE acc

AggRow(acc, r) ==
    IF r.leave_type = "annual" \/ r.leave_type = "vacation"
    THEN [acc EXCEPT !.amount = @ + FullDay]
    ELSE IF r.leave_type = "half" \/ r.remarks = "half_in" \/ r.remarks = "half_out"
         THEN IF r.work_date \notin acc.seen
              THEN [amount |-> acc.amount + HalfDay,
                    seen |-> acc.seen \cup {r.work_date}]
              ELSE acc
         ELSE acc

\* the variant of the loop that looks at leave_type only (lines 919-925)
AggRowType(acc, r) ==
    IF r.leave_type = "annual" \/ r.leave_type = "vacation"
    THEN [acc EXCEPT !.amount = @ + FullDay]
    ELSE IF r.leave_type = "half"
         THEN IF r.work_date \notin acc.seen
              THEN [amount |-> acc.amount + HalfDay,
                    seen |-> acc.seen \cup {r.work_date}]
              ELSE acc
         ELSE acc

AggStart == [amount |-> 0, seen |-> {}]

RECURSIVE AggLoop(_, _, _, _)
AggLoop(rows, i, acc, with_remarks) ==
    IF i > Len(rows) THEN acc
    ELSE AggLoop(rows, i + 1,
                 IF with_remarks THEN AggRow(acc, rows[i]) ELSE AggRowType(acc, rows[i]),
                 with_remarks)

\* cursor.fetchall(): the rows of a table (a set) in some order
RECURSIVE FetchAll(_)
FetchAll(S) ==
    IF S = {} THEN << >>
    ELSE LET r == CHOOSE x \in S : TRUE IN <<r>> \o FetchAll(S \ {r})

\* usage of the employee in [from, to), loop with the remarks test
Usage(att, from, to) ==
    AggLoop(FetchAll({r \in att : InQuery(r, from, to)}), 1, AggStart, TRUE).amount

\* usage of the employee in [from, to), loop on leave_type only
UsageType(att, from, to) ==
    AggLoop(FetchAll({r \in att : InQueryType(r, from, to)}), 1, AggStart, FALSE).amount


-----------------------------------------------------------------------------
(* Tables: leave_records, leave_expirations                                *)

LeaveRec(t, d, a) == [leave_type |-> t, leave_date |-> d, leave_amount |-> a]

\* a leave_expirations row; the year column, which the program only displays,
\* is left out
ExpRec(t, a, d) ==
    [leave_type |-> t, expired_amount |-> a, expiration_date |-> d]

RECURSIVE SumAmounts(_)
SumAmounts(S) ==
    IF S = {} THEN 0
    ELSE LET r == CHOOSE x \in S : TRUE IN r.leave_amount + SumAmounts(S \ {r})

\* SELECT SUM(leave_amount) FROM leave_records WHERE leave_type = ? AND
\* leave_date >= ? AND leave_date < ?
SumLeave(lrec, t, from, to) ==
    SumAmounts({r \in lrec : r.leave_type = t /\ DateLE(from, r.leave_date)
                                 /\ DateLT(r.leave_date, to)})

\* SELECT SUM(leave_amount) ... WHERE leave_type = ? AND leave_date < ?
SumLeaveBefore(lrec, t, to) ==
    SumAmounts({r \in lrec : r.leave_type = t /\ DateLT(r.leave_date, to)})

\* SELECT id FROM leave_expirations WHERE leave_type = ? AND expiration_date = ?
ExistsExp(exps, t, d) ==
    \E i \in 1..Len(exps) : exps[i].leave_type = t /\ exps[i].expiration_date = d

RECURSIVE SumExpiredFrom(_, _, _)
SumExpiredFrom(exps, i, upto) ==
    IF i > Len(exps) THEN 0
    ELSE (IF exps[i].leave_type = "annual" /\ DateLE(exps[i].expiration_date, upto)
          THEN exps[i].expired_amount ELSE 0) + SumExpiredFrom(exps, i + 1, upto)

\* SELECT SUM(expired_amount) FROM leave_expirations WHERE leave_type = 'annual'
\* AND expiration_date <= ?
SumExpired(exps, upto) == SumExpiredFrom(exps, 1, upto)

-----------------------------------------------------------------------------
(* LeaveCalculator: expiration checks                                      *)

\* LeaveCalculator.check_monthly_leave_expiration; returns the table
check_monthly_leave_expiration(exps, emp, lrec, target) ==
    LET hire == emp.hire_date
        one_year_date == AnniversaryIn(hire[1] + 1, hire[2], hire[3])
        total_used == SumLeaveBefore(lrec, "monthly", one_year_date)
        max_monthly_leave ==
            Min(11, calculate_monthly_leave(hire, PrevDay(one_year_date)))
        expired_amount == Halves(max_monthly_leave) - total_used
    IN  IF is_one_year_or_more(emp.on_list, hire, target) THEN exps
        ELSE IF DateLE(one_year_date, target)
                /\ ~ExistsExp(exps, "monthly", one_year_date)
                /\ expired_amount > 0
             THEN Append(exps, ExpRec("monthly", expired_amount, one_year_date))
             ELSE exps

\* range(1, 50) of the anniversary loops
WalkLimit == 49

\* amount check_annual_leave_expiration computes for the boundary after
\* year offset off
AnnualExpiredAbs(emp, lrec, off) ==
    LET hire == emp.hire_date
        anniversary_date == Anniversary(hire, off)
        next_anniversary_date ==
            AnniversaryIn(anniversary_date[1] + 1, hire[2], hire[3])
    IN  Halves(calculate_annual_leave(hire, anniversary_date))
        - SumLeave(lrec, "annual", anniversary_date, next_anniversary_date)

AnnualInsertNoGuard(exps, emp, lrec, target, off) ==
    LET hire == emp.hire_date
        next_anniversary_date ==
            AnniversaryIn(Anniversary(hire, off)[1] + 1, hire[2], hire[3])
        expired_amount == AnnualExpiredAbs(emp, lrec, off)
    IN  IF expired_amount > 0
        THEN Append(exps, ExpRec("annual", expired_amount, next_anniversary_date))
        ELSE exps

\* body of the loop of check_annual_leave_expiration once the boundary has
\* passed: check for an existing record, then insert
AnnualInsert(exps, emp, lrec, target, off) ==
    LET hire == emp.hire_date
        next_anniversary_date ==
            AnniversaryIn(Anniversary(hire, off)[1] + 1, hire[2], hire[3])
        expired_amount == AnnualExpiredAbs(emp, lrec, off)
    IN  IF ~ExistsExp(exps, "annual", next_anniversary_date) /\ expired_amount > 0
        THEN Append(exps, ExpRec("annual", expired_amount, next_anniversary_date))
        ELSE exps

RECURSIVE AnnualWalk(_, _, _, _, _)
AnnualWalk(exps, off, emp, lrec, target) ==
    LET hire == emp.hire_date
        next_anniversary_date ==
            AnniversaryIn(Anniversary(hire, off)[1] + 1, hire[2], hire[3])
    IN  IF off > WalkLimit THEN exps
        ELSE IF DateLE(next_anniversary_date, target)
             THEN AnnualWalk(AnnualInsert(exps, emp, lrec, target, off),
                             off + 1, emp, lrec, target)
             ELSE exps

\* LeaveCalculator.check_annual_leave_expiration; returns the table
check_annual_leave_expiration(exps, emp, lrec, target) ==
    IF ~is_one_year_or_more(emp.on_list, emp.hire_date, target) THEN exps
    ELSE AnnualWalk(exps, 1, emp, lrec, target)


-----------------------------------------------------------------------------
(* LeaveManagementGUI.refresh_data, per employee                           *)

YearEnd(y) == <<y, 12, 31>>
YearStart(y) == <<y, 1, 1>>

\* first year from which the carried balance is forfeited at the anniversary
\* and the stored balance of the previous year is used
CutoverYear == 2026

MonthCap == 11

\* min(max(months_passed, 0), 11)
MonthlyGenerated(hire, target) == Min(Max(MonthsPassed(hire, target), 0), MonthCap)

\* remaining_prev_year when hire_year < selected_year (lines 906-1076);
\* exps is the table as the SELECT at line 1046 sees it
PrevYearRemaining(emp, sel, td, att, exps, snaps) ==
    LET hire == emp.hire_date
        prev_year == sel - 1
        prev_year_end == YearEnd(prev_year)
        pya == <<prev_year, hire[2], hire[3]>>
        prev_year_anniversary ==
            IF DateLE(pya, hire)
            THEN AnniversaryIn(prev_year + 1, hire[2], hire[3]) ELSE pya
        days_from_hire_to_prev_year_end == DaysBetween(prev_year_end, hire)
        annual_prev_anniversary ==
            IF days_from_hire_to_prev_year_end < 0 THEN 0
            ELSE IF days_from_hire_to_prev_year_end < 365
                 THEN MonthlyGenerated(hire, prev_year_end)
            ELSE IF DateLE(prev_year_anniversary, prev_year_end)
                 THEN calculate_annual_leave(hire, prev_year_anniversary)
            ELSE calculate_annual_leave(hire, prev_year_end)
        usage_start_date_prev ==
            IF DateLE(prev_year_anniversary, prev_year_end)
            THEN (IF hire[1] = prev_year THEN hire ELSE prev_year_anniversary)
            ELSE (IF hire[1] = prev_year THEN hire ELSE YearStart(prev_year))
        used_prev_year == Usage(att, usage_start_date_prev, YearStart(prev_year + 1))
        prev_prev_year == prev_year - 1
        prev_prev_year_end == YearEnd(prev_prev_year)
        days_pp == DaysBetween(prev_prev_year_end, hire)
        annual_prev_prev_anniversary ==
            IF days_pp < 0 THEN 0
            ELSE IF days_pp < 365 THEN MonthlyGenerated(hire, prev_prev_year_end)
            ELSE calculate_annual_leave(hire, prev_prev_year_end)
        used_prev_prev_year ==
            UsageType(att, YearStart(prev_prev_year), YearStart(prev_prev_year + 1))
        remaining_prev_prev_year ==
            IF prev_prev_year >= hire[1]
            THEN Halves(annual_prev_prev_anniversary) - used_prev_prev_year
            ELSE 0
        total_expired_prev == SumExpired(exps, prev_year_end)
        remaining_prev_prev_year_final ==
            Max(0, remaining_prev_prev_year - total_expired_prev)
        computed ==
            (Halves(annual_prev_anniversary) - used_prev_year)
            + remaining_prev_prev_year_final
    IN  IF sel >= CutoverYear /\ is_one_year_or_more(emp.on_list, hire, td)
           /\ snaps[prev_year] # NoValue
        THEN snaps[prev_year]
        ELSE computed

\* remaining_prev_year (lines 902-1076)
RemainingPrevYear(emp, sel, td, att, exps, snaps) ==
    IF emp.hire_date[1] >= sel THEN 0
    ELSE PrevYearRemaining(emp, sel, td, att, exps, snaps)

MonthEnd(sel, month) ==
    IF month < 12 THEN <<sel, month + 1, 1>> ELSE <<sel + 1, 1, 1>>

\* monthly_usage[month] (lines 1081-1124)
MonthlyUsage(emp, sel, att, month) ==
    LET anniversary_date == AnniversaryIn(sel, emp.hire_date[2], emp.hire_date[3])
        month_start == <<sel, month, 1>>
        month_end == MonthEnd(sel, month)
        query_start ==
            IF DateLT(anniversary_date, month_start) THEN month_start
            ELSE IF DateLT(anniversary_date, month_end) THEN anniversary_date
            ELSE month_start
    IN  Usage(att, query_start, month_end)

\* usage_start_date (lines 1131-1147)
UsageStartDate(emp, sel) ==
    LET hire == emp.hire_date
        anniversary_date == AnniversaryIn(sel, hire[2], hire[3])
    IN  IF DateLE(anniversary_date, YearEnd(sel))
        THEN (IF hire[1] = sel THEN hire ELSE anniversary_date)
        ELSE (IF hire[1] = sel THEN hire ELSE YearStart(sel))

\* used_current_year before the manual values are added (lines 1149-1173)
EventUsage(emp, sel, att) == Usage(att, UsageStartDate(emp, sel), YearStart(sel + 1))

ManualContributionAll(emp, sel, mv) == mv.manual_value

\* contribution of one leave_manual_values row to manual_used_current_year
ManualContribution(emp, sel, mv) ==
    LET anniversary_date == AnniversaryIn(sel, emp.hire_date[2], emp.hire_date[3])
        month == mv.column_index - 4
        month_start == <<sel, month, 1>>
        month_end == MonthEnd(sel, month)
    IN  IF mv.manual_value = 0 THEN 0
        ELSE IF DateLE(anniversary_date, YearEnd(sel))
             THEN IF DateLE(month_start, anniversary_date)
                     /\ DateLT(anniversary_date, month_end)
                  THEN 0
                  ELSE IF DateLT(anniversary_date, month_start)
                       THEN mv.manual_value ELSE 0
             ELSE mv.manual_value

RECURSIVE SumManual(_, _, _)
SumManual(emp, sel, S) ==
    IF S = {} THEN 0
    ELSE LET mv == CHOOSE x \in S : TRUE
         IN  ManualContribution(emp, sel, mv) + SumManual(emp, sel, S \ {mv})

\* manual_used_current_year (lines 1181-1220)
ManualUsed(emp, sel, manual) ==
    SumManual(emp, sel, {mv \in manual : mv.year = sel /\ mv.column_index >= 5
                                          /\ mv.column_index <= 16})

\* the columns for which refresh_data prints its WARNING (lines 1207-1212):
\* the typed values of the month that holds the anniversary.  The loop of
\* _update_summary_for_row (lines 3129-3132) skips the same values and prints
\* nothing.
ManualWarned(emp, sel, manual) ==
    LET anniversary_date == AnniversaryIn(sel, emp.hire_date[2], emp.hire_date[3])
    IN  {mv.column_index : mv \in
            {x \in manual : /\ x.year = sel
                            /\ x.column_index >= 5 /\ x.column_index <= 16
                            /\ x.manual_value # 0
                            /\ DateLE(<<sel, x.column_index - 4, 1>>, anniversary_date)
                            /\ DateLT(anniversary_date, MonthEnd(sel, x.column_index - 4))}}

\* calc_date (lines 1277-1286)
CalcDate(sel, td) ==
    IF sel > td[1] THEN YearEnd(sel)
    ELSE IF sel = td[1] THEN td
    ELSE YearEnd(sel)

\* the last year of the year-gated accrual (lines 1321, 1369)
LegacyYear == 2025

\* leave_generated (lines 1288-1401), in days
LeaveGenerated(emp, sel, td) ==
    LET hire == emp.hire_date
        calc_date == CalcDate(sel, td)
        anniversary_date == AnniversaryIn(sel, hire[2], hire[3])
        prev_anniversary == AnniversaryIn(sel - 1, hire[2], hire[3])
    IN  IF ~is_one_year_or_more(emp.on_list, hire, calc_date)
        THEN (IF DateLT(calc_date, hire) THEN 0
              ELSE MonthlyGenerated(hire, calc_date))
        ELSE IF DateLE(anniversary_date, YearEnd(sel))
             THEN IF sel <= LegacyYear
                  THEN calculate_annual_leave(hire, anniversary_date)
                  ELSE IF DateLE(anniversary_date, td)
                       THEN calculate_annual_leave(hire, anniversary_date)
                       ELSE 0
             ELSE IF sel - 1 >= hire[1] /\ DateLT(hire, prev_anniversary)
                     /\ DateLE(prev_anniversary, td)
                  THEN calculate_annual_leave(hire, prev_anniversary)
                  ELSE 0


\* max_years of the per-anniversary walk of refresh_data
max_years == 50

\* leave_generated_period of the walk for year offset off, in days
WalkGenerated(hire, off) ==
    LET next_anniversary == Anniversary(hire, off)
        period_start ==
            IF off = 1 THEN hire ELSE <<hire[1] + off - 1, hire[2], hire[3]>>
    IN  IF off > 1
        THEN calculate_annual_leave(hire, PrevDay(next_anniversary))
             - calculate_annual_leave(hire, PrevDay(period_start))
        ELSE calculate_annual_leave(hire, PrevDay(next_anniversary))

\* expired_amount of the walk for year offset off
WalkExpired(emp, lrec, off) ==
    LET hire == emp.hire_date
        next_anniversary == Anniversary(hire, off)
        period_start ==
            IF off = 1 THEN hire ELSE <<hire[1] + off - 1, hire[2], hire[3]>>
    IN  Max(0, Halves(WalkGenerated(hire, off))
               - SumLeave(lrec, "annual", period_start, next_anniversary))

\* lines 1425-1469: res = [exps, err]; the unguarded datetime() of line 1439
\* raises ValueError when the previous anniversary is not a calendar date
WalkInsertNoGuard(res, emp, lrec, td, off) ==
    LET hire == emp.hire_date
        next_anniversary == Anniversary(hire, off)
    IN  IF off > 1 /\ ~ValidDate(hire[1] + off - 1, hire[2], hire[3])
        THEN [res EXCEPT !.err = TRUE]
        ELSE IF WalkExpired(emp, lrec, off) > 0
             THEN [res EXCEPT !.exps =
                      Append(@, ExpRec("annual", WalkExpired(emp, lrec, off),
                                       next_anniversary))]
             ELSE res

WalkInsert(res, emp, lrec, td, off) ==
    LET hire == emp.hire_date
        next_anniversary == Anniversary(hire, off)
    IN  IF ExistsExp(res.exps, "annual", next_anniversary) THEN res
        ELSE IF off > 1 /\ ~ValidDate(hire[1] + off - 1, hire[2], hire[3])
             THEN [res EXCEPT !.err = TRUE]
        ELSE IF WalkExpired(emp, lrec, off) > 0
             THEN [res EXCEPT !.exps =
                      Append(@, ExpRec("annual", WalkExpired(emp, lrec, off),
                                       next_anniversary))]
             ELSE res

WalkStopsNever(td, next_anniversary) == FALSE

\* the break of the walk (lines 1420-1422): the anniversary is later than today
WalkStops(td, next_anniversary) == DateLT(td, next_anniversary)

\* the per-anniversary walk of refresh_data (lines 1406-1469)
RECURSIVE RefreshWalk(_, _, _, _, _)
RefreshWalk(res, off, emp, lrec, td) ==
    IF off > max_years \/ res.err THEN res
    ELSE IF WalkStops(td, Anniversary(emp.hire_date, off)) THEN res
    ELSE RefreshWalk(WalkInsert(res, emp, lrec, td, off), off + 1, emp, lrec, td)

\* expired_2025_remaining (lines 1495-1515), 0 before the anniversary
CarryExpired(emp, sel, td, lrec, carry) ==
    LET hire == emp.hire_date
        anniversary_2026 == AnniversaryIn(sel, hire[2], hire[3])
        anniversary_2025 == AnniversaryIn(sel - 1, hire[2], hire[3])
    IN  IF DateLE(anniversary_2026, td)
        THEN Max(0, carry - SumLeave(lrec, "annual", anniversary_2025, anniversary_2026))
        ELSE 0

\* the insert of lines 1517-1531
CarryInsertNoGuard(exps, emp, sel, td, lrec, carry) ==
    LET hire == emp.hire_date
        anniversary_2026 == AnniversaryIn(sel, hire[2], hire[3])
        expired == CarryExpired(emp, sel, td, lrec, carry)
    IN  IF sel >= CutoverYear /\ DateLE(anniversary_2026, td) /\ expired > 0
        THEN Append(exps, ExpRec("annual", expired, anniversary_2026))
        ELSE exps

CarryInsert(exps, emp, sel, td, lrec, carry) ==
    LET hire == emp.hire_date
        anniversary_2026 == AnniversaryIn(sel, hire[2], hire[3])
        expired == CarryExpired(emp, sel, td, lrec, carry)
    IN  IF sel >= CutoverYear /\ DateLE(anniversary_2026, td) /\ expired > 0
           /\ ~ExistsExp(exps, "annual", anniversary_2026)
        THEN Append(exps, ExpRec("annual", expired, anniversary_2026))
        ELSE exps

\* total_expired_float (lines 1482-1555); exps is the table after the walk
TotalExpired(emp, sel, td, lrec, exps, carry) ==
    IF sel >= CutoverYear THEN CarryExpired(emp, sel, td, lrec, carry)
    ELSE SumExpired(exps, td)

\* remaining_prev_year_final (lines 1482-1555)
RemainingPrevYearFinal(emp, sel, td, lrec, exps, carry) ==
    LET hire == emp.hire_date
        anniversary_2026 == AnniversaryIn(sel, hire[2], hire[3])
    IN  IF sel >= CutoverYear
        THEN IF DateLE(anniversary_2026, td)
             THEN Max(0, carry - CarryExpired(emp, sel, td, lrec, carry))
             ELSE carry
        ELSE Max(0, carry - SumExpired(exps, td))

RemainingClamped(generated, used, carry_final) ==
    Max(0, (Halves(generated) - used) + carry_final)

\* remaining (lines 1563, 1864)
Remaining(generated, used, carry_final) ==
    (Halves(generated) - used) + carry_final

\* ValueError of the unguarded datetime() calls before the walk (lines 890, 934)
RaisesBeforeWalk(emp, sel) ==
    LET hire == emp.hire_date
        anniversary_date == AnniversaryIn(sel, hire[2], hire[3])
    IN  \/ DateLE(anniversary_date, hire) /\ ~ValidDate(sel + 1, hire[2], hire[3])
        \/ hire[1] < sel /\ ~ValidDate(sel - 1, hire[2], hire[3])

\* ValueError of the unguarded datetime() calls of the expiration narrative
\* (lines 1624, 1661, 1673)
RaisesInNarrative(emp, sel, td) ==
    LET hire == emp.hire_date
    IN  /\ sel >= LegacyYear
        /\ \E off \in 2..WalkLimit :
              LET check_anniversary == Anniversary(hire, off)
              IN  /\ DateLE(check_anniversary, td)
                  /\ check_anniversary[1] <= sel
                  /\ DateLT(hire, check_anniversary)
                  /\ ~ValidDate(hire[1] + off - 1, hire[2], hire[3])


\* the expiration narrative of the row (lines 1592-1751): the entries of
\* expiration_list as (leave_type, amount, date) triples

\* leave_generated_period of the period that ends at the anniversary of
\* offset off (lines 1618-1632), in days
NarrativeGenerated(hire, off) ==
    IF off = 1
    THEN calculate_annual_leave(hire, PrevDay(Anniversary(hire, 1)))
    ELSE calculate_annual_leave(hire, PrevDay(Anniversary(hire, off)))
         - calculate_annual_leave(hire, PrevDay(Anniversary(hire, off - 1)))

\* used_period (lines 1635-1653) and prev_used (lines 1684-1703)
NarrativeUsed(hire, att, off) ==
    Usage(att, IF off = 1 THEN hire ELSE Anniversary(hire, off - 1),
          Anniversary(hire, off))

\* remaining_before_period (lines 1656-1705)
NarrativeBefore(hire, att, off) ==
    IF off > 1 /\ DateLT(hire, Anniversary(hire, off - 1))
    THEN Halves(NarrativeGenerated(hire, off - 1)) - NarrativeUsed(hire, att, off - 1)
    ELSE 0

\* expired_amount (lines 1707-1711)
NarrativeExpired(hire, att, off) ==
    Max(0, (Halves(NarrativeGenerated(hire, off)) - NarrativeUsed(hire, att, off))
           + NarrativeBefore(hire, att, off))

ExpirationNarrative(emp, sel, td, att, exps) ==
    LET hire == emp.hire_date
        listed == {off \in 1..WalkLimit :
                     /\ DateLE(Anniversary(hire, off), td)
                     /\ Anniversary(hire, off)[1] <= sel
                     /\ DateLT(hire, Anniversary(hire, off))}
    IN  IF sel >= LegacyYear
        THEN {ExpRec("annual", NarrativeExpired(hire, att, off), Anniversary(hire, off)) :
                 off \in {o \in listed : NarrativeExpired(hire, att, o) > 0}}
        ELSE {exps[i] : i \in {j \in 1..Len(exps) : exps[j].expired_amount > 0}}

-----------------------------------------------------------------------------
(* State machine                                                           *)

SnapYears == 2024..2028

NoRow ==
    [year |-> 0, calc_date |-> <<0, 0, 0>>, error |-> FALSE, carry_in |-> 0,
     monthly_usage |-> [m \in 1..12 |-> 0], event_usage |-> 0, year_usage |-> 0,
     year_accrual |-> 0, total_expired |-> 0, carry_in_after_expiration |-> 0,
     remaining |-> 0, regime_b |-> FALSE, warned |-> {}, narrative |-> {}]

ErrorRow(sel, td) ==
    [NoRow EXCEPT !.year = sel, !.calc_date = CalcDate(sel, td), !.error = TRUE]

\* the attendance register window with nothing to save
NoEdits == [pending_changes |-> << >>, message |-> "none"]

\* no register of several employees
NoBatch ==
    [year |-> 0, staff |-> << >>, exps |-> << >>, snaps |-> << >>,
     shown |-> << >>, failed |-> 0, cause |-> "none"]

AggIdle ==
    [table |-> << >>, from |-> <<0, 0, 0>>, to |-> <<0, 0, 0>>,
     with_remarks |-> TRUE, rows |-> << >>, i |-> 0, acc |-> AggStart]

Init ==
    /\ today = Days[1]
    /\ employee \in [hire_date : HireDates, on_list : BOOLEAN]
    /\ attendance = {}
    /\ leave_records = {}
    /\ expirations = << >>
    /\ remaining_by_year = [y \in SnapYears |-> NoValue]
    /\ manual_values = {}
    /\ row = NoRow
    /\ agg = AggIdle
    /\ batch = NoBatch
    /\ editor = NoEdits

\* the system clock moves on
AdvanceToday ==
    /\ \E i \in 1..Len(Days) : DateLT(today, Days[i]) /\ today' = Days[i]
    /\ UNCHANGED <<employee, attendance, leave_records, expirations,
                   remaining_by_year, manual_values, row, agg, batch, editor>>

\* AttendanceManagementGUI.save_changes with one pending text entry (a leave
\* entry typed into the register) for the date d
save_changes(d, mark) ==
    /\ \A r \in attendance : r.work_date # d
    /\ Cardinality(attendance) < MaxEvents
    /\ attendance' = {r \in attendance : r.work_date # d} \cup {AttRow(d, mark)}
    /\ leave_records' =
         IF mark[1] = "annual"
         THEN {r \in leave_records : ~(r.leave_date = d /\ r.leave_type = "annual")}
              \cup {LeaveRec("annual", d, FullDay)}
         ELSE IF mark[1] = "half"
         THEN {r \in leave_records : ~(r.leave_date = d /\ r.leave_type = "half")}
              \cup {LeaveRec("half", d, HalfDay)}
         ELSE leave_records
    /\ UNCHANGED <<today, employee, expirations, remaining_by_year,
                   manual_values, row, agg, batch, editor>>

\* current_date = datetime(selected_year, 11, 1) passed to the LeaveCalculator
CheckDate(sel) == <<sel, 11, 1>>

\* the table after the two LeaveCalculator checks (lines 863-864)
AfterChecks(exps, emp, lrec, sel) ==
    check_annual_leave_expiration(
        check_monthly_leave_expiration(exps, emp, lrec, CheckDate(sel)),
        emp, lrec, CheckDate(sel))

\* the table after the checks and the per-anniversary walk: [exps, err]
AfterWalks(exps, emp, lrec, sel, td) ==
    RefreshWalk([exps |-> AfterChecks(exps, emp, lrec, sel), err |-> FALSE],
                1, emp, lrec, td)

\* the body of the loop of refresh_data over the employees, for one employee
\* (lines 860-1934): the tables it leaves and the row it shows.  att, lrec,
\* exps, snaps, mv are the rows of the employee in attendance_records,
\* leave_records, leave_expirations, leave_remaining_by_year and
\* leave_manual_values.  A ValueError leaves the loop: the row is not shown
\* and the writes that follow it are not made.
Projection(emp, sel, td, att, lrec, exps, snaps, mv) ==
    LET exps2 == AfterChecks(exps, emp, lrec, sel)
        walk == AfterWalks(exps, emp, lrec, sel, td)
        carry == RemainingPrevYear(emp, sel, td, att, exps2, snaps)
        exps4 == CarryInsert(walk.exps, emp, sel, td, lrec, carry)
        generated == LeaveGenerated(emp, sel, td)
        event_usage == EventUsage(emp, sel, att)
        used == event_usage + ManualUsed(emp, sel, mv)
        final == RemainingPrevYearFinal(emp, sel, td, lrec, walk.exps, carry)
        remaining == Remaining(generated, used, final)
        regime_b == is_one_year_or_more(emp.on_list, emp.hire_date, CalcDate(sel, td))
    IN  IF RaisesBeforeWalk(emp, sel)
        THEN [exps |-> exps2, snaps |-> snaps, mv |-> mv, row |-> ErrorRow(sel, td)]
        ELSE IF walk.err
        THEN [exps |-> walk.exps, snaps |-> snaps, mv |-> mv, row |-> ErrorRow(sel, td)]
        ELSE IF RaisesInNarrative(emp, sel, td)
        THEN [exps |-> exps4, snaps |-> snaps, mv |-> mv, row |-> ErrorRow(sel, td)]
        ELSE [exps |-> exps4,
              snaps |-> IF regime_b THEN [snaps EXCEPT ![sel] = remaining] ELSE snaps,
              mv |-> {x \in mv : ~(x.year = sel /\ x.column_index \in {17, 18, 19})},
              row |-> [year |-> sel, calc_date |-> CalcDate(sel, td), error |-> FALSE,
                       carry_in |-> carry,
                       monthly_usage |->
                           [m \in 1..12 |-> MonthlyUsage(emp, sel, att, m)],
                       event_usage |-> event_usage, year_usage |-> used,
                       year_accrual |-> generated,
                       total_expired |->
                           TotalExpired(emp, sel, td, lrec, walk.exps, carry),
                       carry_in_after_expiration |-> final,
                       remaining |-> remaining, regime_b |-> regime_b,
                       warned |-> ManualWarned(emp, sel, mv),
                       narrative |-> ExpirationNarrative(emp, sel, td, att, exps4)]]

\* LeaveManagementGUI.refresh_data for the report year sel, one employee
refresh_data(sel) ==
    LET p == Projection(employee, sel, today, attendance, leave_records,
                        expirations, remaining_by_year, manual_values)
    IN  /\ expirations' = p.exps
        /\ remaining_by_year' = p.snaps
        /\ manual_values' = p.mv
        /\ row' = p.row
        /\ UNCHANGED <<today, employee, attendance, leave_records, agg, batch, editor>>

Next ==
    \/ AdvanceToday
    \/ \E d \in EventDates, mark \in LeaveMarks : save_changes(d, mark)
    \/ \E sel \in SelYears : refresh_data(sel)

Spec == Init /\ [][Next]_vars

-----------------------------------------------------------------------------
(* Daily runs: the ledger of the current year is viewed every day          *)

ClockInit ==
    /\ employee \in [hire_date : ClockHires, on_list : BOOLEAN]
    /\ today = employee.hire_date
    /\ attendance = {}
    /\ leave_records = {}
    /\ expirations = << >>
    /\ remaining_by_year = [y \in SnapYears |-> NoValue]
    /\ manual_values = {}
    /\ row = NoRow
    /\ agg = AggIdle
    /\ batch = NoBatch
    /\ editor = NoEdits

\* midnight passes once the row of the day has been shown
Tick ==
    /\ row.calc_date = today
    /\ DaysBetween(today, employee.hire_date) < ClockSpan
    /\ today' = NextDay(today)
    /\ UNCHANGED <<employee, attendance, leave_records, expirations,
                   remaining_by_year, manual_values, row, agg, batch, editor>>

\* refresh_data with year_combo at the current year
ViewToday == refresh_data(today[1])

ClockNext == Tick \/ ViewToday

SpecClock == ClockInit /\ [][ClockNext]_vars

-----------------------------------------------------------------------------
(* Runs of the usage-aggregation loop on its own                           *)

\* the rows a scanned table is made of.  A table may hold several rows of one
\* date: the set of seen dates of the loop only matters for such tables, which
\* UNIQUE(employee_id, work_date) of init_database rules out in a table that
\* init_database itself created (CREATE TABLE IF NOT EXISTS keeps an older one)
AggRows == {AttRow(d, mark) : d \in AggDates, mark \in LeaveMarks}

RECURSIVE SeqsUpTo(_, _)
SeqsUpTo(S, n) ==
    IF n = 0 THEN {<< >>}
    ELSE LET shorter == SeqsUpTo(S, n - 1)
         IN  shorter \cup {Append(q, x) : q \in shorter, x \in S}

\* the windows [from, to) of the runs
AggWindows == {<< <<2026, 3, 1>>, <<2026, 4, 1>> >>, << <<2026, 1, 1>>, <<2027, 1, 1>> >>}

\* cursor.fetchall() of the query over the table
AggFetch(table, from, to, with_remarks) ==
    SelectSeq(table, LAMBDA r : IF with_remarks THEN InQuery(r, from, to)
                                 ELSE InQueryType(r, from, to))

AggInit ==
    /\ today = Days[1]
    /\ employee = [hire_date |-> <<2023, 5, 30>>, on_list |-> FALSE]
    /\ attendance = {}
    /\ leave_records = {}
    /\ expirations = << >>
    /\ remaining_by_year = [y \in SnapYears |-> NoValue]
    /\ manual_values = {}
    /\ row = NoRow
    /\ batch = NoBatch
    /\ editor = NoEdits
    /\ \E table \in SeqsUpTo(AggRows, MaxRows), w \in AggWindows, b \in BOOLEAN :
          agg = [table |-> table, from |-> w[1], to |-> w[2], with_remarks |-> b,
                 rows |-> AggFetch(table, w[1], w[2], b), i |-> 0, acc |-> AggStart]

\* one iteration of the loop over the fetched rows
AggNext ==
    /\ agg.i < Len(agg.rows)
    /\ agg' = [agg EXCEPT !.i = @ + 1,
                          !.acc = IF agg.with_remarks THEN AggRow(@, agg.rows[agg.i + 1])
                                  ELSE AggRowType(@, agg.rows[agg.i + 1])]
    /\ UNCHANGED <<today, employee, attendance, leave_records, expirations,
                   remaining_by_year, manual_values, row, batch, editor>>

SpecAgg == AggInit /\ [][AggNext]_vars


-----------------------------------------------------------------------------
(* Editing a monthly cell of the ledger row                                *)

\* months whose cell is edited, the amounts typed (0 is the blank cell) and
\* the number of monthly cells that hold a typed value at a time
ManualMonths == {3, 5, 9, 10}
ManualAmounts == {0, FullDay}
MaxManual == 1

\* format_value (lines 1763-1788, 3262-3278) of an amount in half days: the
\* blank text for 0, str(int(val)) for a whole number of days, "%.1f" else
format_value(h) ==
    IF h = 0 THEN << >>
    ELSE LET a == IF h < 0 THEN -h ELSE h
         IN  IF a % 2 = 0 THEN <<h < 0, a \div 2>> ELSE <<h < 0, a \div 2, 5>>

\* float(text) if text else 0.0 (lines 3207-3214), in half days
ParseCell(text) ==
    IF Len(text) = 0 THEN 0
    ELSE LET a == 2 * text[2] + (IF Len(text) = 3 /\ text[3] = 5 THEN 1 ELSE 0)
         IN  IF text[1] THEN -a ELSE a

\* leave_generated of _update_summary_for_row (lines 3172-3204), in days
SummaryGenerated(emp, sel, td) ==
    LET hire == emp.hire_date
        anniversary_date == AnniversaryIn(sel, hire[2], hire[3])
        current_date_for_calc == CalcDate(sel, td)
    IN  IF DaysBetween(anniversary_date, hire) < 365
        THEN (IF DaysBetween(current_date_for_calc, hire) < 0 THEN 0
              ELSE MonthlyGenerated(hire, current_date_for_calc))
        ELSE calculate_annual_leave(hire, anniversary_date)

\* _update_summary_for_row (lines 3013-3320): the row after the usage, the
\* accrual and the remaining balance have been computed again from the tables;
\* the carried amount is read back from the text of column 4
SummaryRow(r, emp, td, att, exps, mv) ==
    LET event_usage == EventUsage(emp, r.year, att)
        used == event_usage + ManualUsed(emp, r.year, mv)
        generated == SummaryGenerated(emp, r.year, td)
        remaining_prev_year == ParseCell(format_value(r.carry_in))
        total_expired == SumExpired(exps, td)
        final == Max(0, remaining_prev_year - total_expired)
    IN  [r EXCEPT !.event_usage = event_usage, !.year_usage = used,
                  !.year_accrual = generated, !.total_expired = total_expired,
                  !.carry_in_after_expiration = final,
                  !.remaining = Remaining(generated, used, final),
                  !.warned = {}]

\* on_cell_changed for the cell of month `month` of the row shown, amount
\* typed (lines 2866-2948), followed by _update_summary_for_row.  The handler
\* returns at once while _is_refreshing is set, which is the case after a
\* refresh that ended in an error.  Setting the text of column 17 calls the
\* handler again for that column (lines 2950-2965), which stores the text as
\* the manual value of column 17, or deletes it when the text is blank.
on_cell_changed(month, amount) ==
    LET sel == row.year
        col == month + 4
        existing == {r \in leave_records : r.leave_date[1] = sel /\ r.leave_date[2] = month}
        records == IF amount > 0
                   THEN (IF existing # {}
                         THEN {IF r \in existing THEN [r EXCEPT !.leave_amount = amount]
                               ELSE r : r \in leave_records}
                         ELSE leave_records
                              \cup {LeaveRec("annual", <<sel, month, 1>>, amount)})
                   ELSE leave_records \ existing
        others == {x \in manual_values : ~(x.year = sel /\ x.column_index = col)}
        typed == IF amount = 0 THEN others
                 ELSE others \cup {[year |-> sel, column_index |-> col,
                                    manual_value |-> amount]}
        summary == SummaryRow(row, employee, today, attendance, expirations, typed)
        echoed == {x \in typed : ~(x.year = sel /\ x.column_index = 17)}
    IN  /\ row.year # 0 /\ ~row.error
        /\ amount > 0 =>
             Cardinality({x \in others : x.column_index >= 5 /\ x.column_index <= 16})
                < MaxManual
        /\ leave_records' = records
        /\ manual_values' =
             IF summary.year_usage = 0 THEN echoed
             ELSE echoed \cup {[year |-> sel, column_index |-> 17,
                                manual_value |-> summary.year_usage]}
        /\ row' = summary
        /\ UNCHANGED <<today, employee, attendance, expirations,
                       remaining_by_year, agg, batch, editor>>

ManualHires == {<<2023, 5, 30>>, <<2025, 9, 1>>}
ManualYears == {2025, 2026}

ManualInit ==
    /\ today = Days[1]
    /\ employee \in [hire_date : ManualHires, on_list : {FALSE}]
    /\ attendance = {}
    /\ leave_records = {}
    /\ expirations = << >>
    /\ remaining_by_year = [y \in SnapYears |-> NoValue]
    /\ manual_values = {}
    /\ row = NoRow
    /\ agg = AggIdle
    /\ batch = NoBatch
    /\ editor = NoEdits

ManualNext ==
    \/ \E d \in EventDates, mark \in LeaveMarks : save_changes(d, mark)
    \/ \E sel \in ManualYears : refresh_data(sel)
    \/ \E month \in ManualMonths, amount \in ManualAmounts :
          on_cell_changed(month, amount)

SpecManual == ManualInit /\ [][ManualNext]_vars

-----------------------------------------------------------------------------
(* Correcting the hire date in the ledger row                              *)

\* on_cell_changed for the hire date cell of the row shown (lines 2815-2835):
\* the employees row is updated, the text is stored as the manual value of
\* column 3 for the report year, and refresh_data runs.  Nothing is deleted
\* from leave_expirations or leave_remaining_by_year.
on_hire_date_changed(h) ==
    LET emp == [employee EXCEPT !.hire_date = h]
        typed == {x \in manual_values : ~(x.year = row.year /\ x.column_index = 3)}
                 \cup {[year |-> row.year, column_index |-> 3, manual_value |-> h]}
        p == Projection(emp, row.year, today, attendance, leave_records,
                        expirations, remaining_by_year, typed)
    IN  /\ row.year # 0 /\ ~row.error
        /\ h # employee.hire_date
        /\ employee' = emp
        /\ expirations' = p.exps
        /\ remaining_by_year' = p.snaps
        /\ manual_values' = p.mv
        /\ row' = p.row
        /\ UNCHANGED <<today, attendance, leave_records, agg, batch, editor>>

HireNext ==
    \/ \E sel \in ManualYears : refresh_data(sel)
    \/ \E h \in HireDates : on_hire_date_changed(h)

SpecHire == Init /\ [][HireNext]_vars

-----------------------------------------------------------------------------
(* The attendance register: pending edits and the save button              *)

\* number of edited cells waiting for the save button
MaxPending == 2

\* AttendanceManagementGUI.on_cell_changed (lines 5823-5975): the text typed
\* in the cell of work date d is kept in pending_changes under its key; a key
\* typed again keeps its place in the dict
edit_cell(d, mark) ==
    LET pc == editor.pending_changes
        at == {i \in 1..Len(pc) : pc[i].work_date = d}
    IN  /\ at = {} => Len(pc) < MaxPending
        /\ editor' = [editor EXCEPT
                        !.pending_changes =
                            IF at = {} THEN Append(pc, AttRow(d, mark))
                            ELSE [i \in 1..Len(pc) |->
                                     IF i \in at THEN AttRow(d, mark) ELSE pc[i]]]
        /\ UNCHANGED <<today, employee, attendance, leave_records, expirations,
                       remaining_by_year, manual_values, row, agg, batch>>

\* AttendanceCalculator.process_attendance_record (lines 545-574) for one
\* change: INSERT OR REPLACE of the attendance_records row of the date
ProcessAttendance(att, c) == {r \in att : r.work_date # c.work_date} \cup {c}

\* the leave_records row save_changes writes after the attendance row of a
\* change (lines 4807-4860 for a half day, 4873-4891 for a full day)
WritesLeave(c) == c.leave_type \in {"annual", "half"}

ProcessLeave(lrec, c) ==
    IF WritesLeave(c)
    THEN {r \in lrec : ~(r.leave_date = c.work_date /\ r.leave_type = c.leave_type)}
         \cup {LeaveRec(c.leave_type, c.work_date,
                        IF c.leave_type = "annual" THEN FullDay ELSE HalfDay)}
    ELSE lrec

\* the loop of save_changes over pending_changes (lines 4485-4891) on one
\* connection; db = [att, lrec] is what is committed, tx = [att, lrec] what
\* the connection sees.  process_attendance_record commits the connection it
\* is given after its INSERT (line 566), which also commits the leave_records
\* row written for the change before; when its INSERT raises it rolls the
\* connection back (line 568).  fail = 0: no statement raises; otherwise
\* change number fail raises, in process_attendance_record (stage
\* "attendance") or at its leave_records INSERT (stage "leave").
RECURSIVE SaveLoop(_, _, _, _, _, _)
SaveLoop(pc, i, db, tx, fail, stage) ==
    IF i > Len(pc) THEN [db |-> tx, failed |-> FALSE]
    ELSE IF i = fail /\ stage = "attendance" THEN [db |-> db, failed |-> TRUE]
    ELSE LET committed == [att |-> ProcessAttendance(tx.att, pc[i]), lrec |-> tx.lrec]
         IN  IF i = fail THEN [db |-> committed, failed |-> TRUE]
             ELSE SaveLoop(pc, i + 1, committed,
                           [committed EXCEPT !.lrec = ProcessLeave(@, pc[i])],
                           fail, stage)

\* AttendanceManagementGUI.save_changes (lines 4474-4915) over the pending
\* changes: the loop, the final commit, pending_changes emptied; on an
\* exception the connection is closed and the warning is shown
save_pending_changes(fail, stage) ==
    LET pc == editor.pending_changes
        start == [att |-> attendance, lrec |-> leave_records]
        out == SaveLoop(pc, 1, start, start, fail, stage)
    IN  /\ Len(pc) > 0
        /\ fail <= Len(pc)
        /\ (fail > 0 /\ stage = "leave") => WritesLeave(pc[fail])
        /\ (fail = 0) => stage = "attendance"
        /\ attendance' = out.db.att
        /\ leave_records' = out.db.lrec
        /\ editor' = IF out.failed THEN [editor EXCEPT !.message = "error"]
                     ELSE [pending_changes |-> << >>, message |-> "saved"]
        /\ UNCHANGED <<today, employee, expirations, remaining_by_year,
                       manual_values, row, agg, batch>>

SaveNext ==
    \/ \E d \in EventDates, mark \in LeaveMarks : edit_cell(d, mark)
    \/ \E fail \in 0..MaxPending, stage \in {"attendance", "leave"} :
          save_pending_changes(fail, stage)

SpecSave == Init /\ [][SaveNext]_vars

-----------------------------------------------------------------------------
(* refresh_data over a register of several employees                       *)

\* employees on the register
BatchSize == 2

\* the loop of refresh_data over the employees (lines 841-1934), from employee
\* k on.  st = [exps, snaps, seen, shown, failed, cause]: exps[j] is the
\* leave_expirations table of employee j, snaps[j] the committed
\* leave_remaining_by_year rows, seen[j] the rows as the connection of
\* refresh_data sees them (its uncommitted upserts included), shown the rows
\* inserted into the table.
\*  - The LeaveCalculator checks (lines 863-864) open a connection of their
\*    own.  From the second employee on, the connection of refresh_data holds
\*    an open write transaction (the DELETE of line 1810 is executed for every
\*    employee and is not committed), so an INSERT of a check waits for the
\*    30 s timeout and raises "database is locked".
\*  - No handler encloses the body: the first exception leaves refresh_data,
\*    nothing is committed any more, and the employees after it are not
\*    reached.
\*  - conn.commit() after an insert of the walk or of the carry expiration
\*    (lines 1469, 1531) commits the upserts pending from earlier employees.
RECURSIVE BatchPass(_, _, _, _, _), BatchStep(_, _, _, _, _, _, _)
BatchPass(k, st, staff, sel, td) ==
    IF k > Len(staff) THEN [st EXCEPT !.snaps = st.seen]
    ELSE BatchStep(k, st, staff, sel, td,
                   AfterChecks(st.exps[k], staff[k], {}, sel),
                   Projection(staff[k], sel, td, {}, {}, st.exps[k], st.seen[k], {}))

\* the body of the loop for employee k: checked is the table the
\* LeaveCalculator checks would leave, p the projection of the employee
BatchStep(k, st, staff, sel, td, checked, p) ==
    LET committed == IF p.exps # checked THEN st.seen ELSE st.snaps
    IN  IF k > 1 /\ checked # st.exps[k]
        THEN [st EXCEPT !.failed = k, !.cause = "database is locked"]
        ELSE IF p.row.error
        THEN [st EXCEPT !.exps[k] = p.exps, !.snaps = committed,
                        !.failed = k, !.cause = "invalid date"]
        ELSE BatchPass(k + 1,
                       [st EXCEPT !.exps[k] = p.exps, !.snaps = committed,
                                  !.seen[k] = p.snaps,
                                  !.shown = Append(@, [emp |-> k, row |-> p.row])],
                       staff, sel, td)

\* refresh_data for report year sel over the register
refresh_all(sel) ==
    LET st == BatchPass(1, [exps |-> batch.exps, snaps |-> batch.snaps,
                            seen |-> batch.snaps, shown |-> << >>,
                            failed |-> 0, cause |-> "none"],
                        batch.staff, sel, today)
    IN  /\ batch' = [year |-> sel, staff |-> batch.staff, exps |-> st.exps,
                     snaps |-> st.snaps, shown |-> st.shown,
                     failed |-> st.failed, cause |-> st.cause]
        /\ UNCHANGED <<today, employee, attendance, leave_records, expirations,
                       remaining_by_year, manual_values, row, agg, editor>>

\* a register of BatchSize employees in the order of the query of line 786
\* (department, position, hire date), nobody has taken leave
BatchInit ==
    /\ today = Days[1]
    /\ \E staff \in [1..BatchSize -> [hire_date : HireDates, on_list : BOOLEAN]] :
          /\ employee = staff[1]
          /\ batch = [NoBatch EXCEPT
                        !.staff = staff,
                        !.exps = [k \in 1..BatchSize |-> << >>],
                        !.snaps = [k \in 1..BatchSize |->
                                      [y \in SnapYears |-> NoValue]]]
    /\ attendance = {}
    /\ leave_records = {}
    /\ expirations = << >>
    /\ remaining_by_year = [y \in SnapYears |-> NoValue]
    /\ manual_values = {}
    /\ row = NoRow
    /\ agg = AggIdle
    /\ editor = NoEdits

BatchNext ==
    \/ AdvanceToday
    \/ \E sel \in SelYears : refresh_all(sel)

SpecBatch == BatchInit /\ [][BatchNext]_vars

-----------------------------------------------------------------------------
(* Properties                                                              *)

\* C1: for the hire date of the employee and every n in 1..MaxN,
\* calculate_annual_leave at the n-th anniversary returns the tier value of n
\* (15 for n in {1, 2}, 15 + floor((n - 3) / 2) + 1 from n = 3, at most 25),
\* and on a day before the first anniversary it returns 0.
C1_TierTableAtAnniversaries ==
    LET TierValue(n) == IF n <= 2 THEN 15 ELSE Min(15 + ((n - 3) \div 2) + 1, 25)
    IN  /\ \A n \in 1..MaxN :
              calculate_annual_leave(employee.hire_date,
                                     Anniversary(employee.hire_date, n)) = TierValue(n)
        /\ DateLT(today, Anniversary(employee.hire_date, 1))
              => calculate_annual_leave(employee.hire_date, today) = 0

\* C2: the remaining balance of the row shown equals (year_accrual -
\* year_usage) + carry_in_after_expiration, with no clamping at zero.
C2_RemainingFormula ==
    (row.year # 0 /\ ~row.error)
        => row.remaining = (Halves(row.year_accrual) - row.year_usage)
                           + row.carry_in_after_expiration

\* a row with more usage than accrual and carry: the balance shown is negative
C2_Witness ==
    /\ row.year # 0 /\ ~row.error
    /\ row.year_usage > Halves(row.year_accrual) + row.carry_in_after_expiration
    /\ row.remaining < 0

\* C3: running the two expiration walks of refresh_data a second time over
\* the table the first run left, with the same employee, leave records and
\* dates, leaves the table as it is.
C3_WalksIdempotent ==
    \A sel \in SelYears :
        LET once == AfterWalks(expirations, employee, leave_records, sel, today)
        IN  AfterWalks(once.exps, employee, leave_records, sel, today) = once

\* a refresh has run and the walks have recorded expirations
C3_Witness ==
    /\ row.year # 0
    /\ Len(expirations) >= 2
    /\ AfterWalks(expirations, employee, leave_records, row.year, today).exps
          = expirations

\* C4: no two leave_expirations rows of the employee have the same leave type
\* and expiration date.
C4_NoDuplicateRecords ==
    \A i, j \in 1..Len(expirations) :
        i # j => ~(/\ expirations[i].leave_type = expirations[j].leave_type
                   /\ expirations[i].expiration_date = expirations[j].expiration_date)

\* records of three boundaries are stored after refreshes of several years
C4_Witness ==
    /\ Len(expirations) >= 3
    /\ row.year # 0

\* C5: every annual record a walk of a refresh creates at boundary n (the
\* hire date is boundary 0, the n-th anniversary boundary n) has
\* expired_amount = max(0, generated - used) with generated the entitlement
\* at boundary n minus the entitlement at boundary n - 1 and used the annual
\* leave recorded in [boundary n - 1, boundary n).
C5_ExpiredIsDeltaMinusUsed ==
    [][LET hire == employee.hire_date
           Boundary(n) == IF n = 0 THEN hire ELSE Anniversary(hire, n)
           walked == AfterWalks(expirations, employee, leave_records, row'.year, today).exps
           created == (Len(expirations) + 1) .. Min(Len(expirations'), Len(walked))
       IN  \A i \in created :
              LET r == expirations'[i]
              IN  r.leave_type = "annual" =>
                    \E n \in 1..max_years :
                        /\ r.expiration_date = Boundary(n)
                        /\ r.expired_amount =
                             Max(0, Halves(calculate_annual_leave(hire, Boundary(n))
                                           - calculate_annual_leave(hire, Boundary(n - 1)))
                                    - SumLeave(leave_records, "annual",
                                               Boundary(n - 1), Boundary(n)))
      ]_vars

\* C6: the usage subtracted for boundary n is the aggregated usage of the
\* attendance entries in [boundary n - 1, boundary n), 1.0 per full-day entry
\* and 0.5 per date with half-day entries: every annual record a walk creates
\* holds the amount that walk generates for the period less that usage.
C6_ExpirationUsesAggregatedUsage ==
    [][LET hire == employee.hire_date
           Boundary(n) == IF n = 0 THEN hire ELSE Anniversary(hire, n)
           checked == AfterChecks(expirations, employee, leave_records, row'.year)
           walked == AfterWalks(expirations, employee, leave_records, row'.year, today).exps
           created == (Len(expirations) + 1) .. Min(Len(expirations'), Len(walked))
       IN  \A i \in created :
              LET r == expirations'[i]
              IN  r.leave_type = "annual" =>
                    \E n \in 1..max_years :
                        /\ r.expiration_date = Boundary(n)
                        /\ r.expired_amount =
                             Max(0, (IF i <= Len(checked)
                                     THEN Halves(calculate_annual_leave(hire, Boundary(n - 1)))
                                     ELSE Halves(WalkGenerated(hire, n)))
                                    - Usage(attendance, Boundary(n - 1), Boundary(n)))
      ]_vars

\* C7: when an aggregation loop has read all its rows, its total is 1.0 for
\* each full-day row (annual or vacation) of the window plus 0.5 for each
\* distinct date of the window that has half-day rows, however many, and
\* reading the rows in the opposite order gives the same total.
C7_HalfDayOncePerDate ==
    agg.i = Len(agg.rows) =>
        LET in_window == {k \in 1..Len(agg.table) :
                             /\ DateLE(agg.from, agg.table[k].work_date)
                             /\ DateLT(agg.table[k].work_date, agg.to)}
            full == {k \in in_window :
                        agg.table[k].leave_type \in {"annual", "vacation"}}
            half_dates == {agg.table[k].work_date :
                              k \in {j \in in_window : agg.table[j].leave_type = "half"}}
            reversed == [k \in 1..Len(agg.rows) |-> agg.rows[Len(agg.rows) + 1 - k]]
        IN  /\ agg.acc.amount = FullDay * Cardinality(full)
                                + HalfDay * Cardinality(half_dates)
            /\ AggLoop(reversed, 1, AggStart, agg.with_remarks).amount
                  = agg.acc.amount

\* a finished run over two half-day rows of one date and a full-day row
C7_Witness ==
    /\ agg.i = Len(agg.rows)
    /\ Len(agg.rows) = 3
    /\ \E a, b, c \in 1..3 :
          /\ a # b
          /\ agg.rows[a].leave_type = "half" /\ agg.rows[b].leave_type = "half"
          /\ agg.rows[a].work_date = agg.rows[b].work_date
          /\ agg.rows[c].leave_type = "annual"
    /\ agg.acc.amount = HalfDay + FullDay

\* C8: of two reports of the same report year made on consecutive days, the
\* later one never shows a smaller entitlement than the earlier one.
C8_EntitlementMonotone ==
    [][(/\ row.year # 0 /\ ~row.error
        /\ ~row'.error /\ row'.year = row.year
        /\ DateLT(row.calc_date, row'.calc_date))
          => row.year_accrual <= row'.year_accrual]_vars

\* C9: with tenure of 0 to 364 days the Regime-A entitlement, as
\* calculate_monthly_leave returns it and as the report shows it, is the
\* number of completed months since hire capped at 11, where month k is
\* completed once the month of as_of is later than k months after the month
\* of hire, or is that month and the day of as_of is not before the day of
\* hire; hire 2024-03-10 gives 10 at 2025-01-10 and 2025-02-09 and 11 at
\* 2025-02-10 and 2025-03-09.
C9_MonthlyEntitlement ==
    LET CompletedMonths(hire, as_of) ==
            Cardinality({k \in 1..24 :
                LET mark == hire[1] * 12 + (hire[2] - 1) + k
                    cur  == as_of[1] * 12 + (as_of[2] - 1)
                IN  cur > mark \/ (cur = mark /\ as_of[3] >= hire[3])})
    IN  /\ DaysBetween(today, employee.hire_date) \in 0..364
              => calculate_monthly_leave(employee.hire_date, today)
                    = Min(CompletedMonths(employee.hire_date, today), 11)
        /\ (/\ row.year # 0 /\ ~row.error /\ ~row.regime_b
            /\ DaysBetween(row.calc_date, employee.hire_date) \in 0..364)
              => row.year_accrual
                    = Min(CompletedMonths(employee.hire_date, row.calc_date), 11)
        /\ calculate_monthly_leave(<<2024, 3, 10>>, <<2025, 1, 10>>) = 10
        /\ calculate_monthly_leave(<<2024, 3, 10>>, <<2025, 2, 9>>) = 10
        /\ calculate_monthly_leave(<<2024, 3, 10>>, <<2025, 2, 10>>) = 11
        /\ calculate_monthly_leave(<<2024, 3, 10>>, <<2025, 3, 9>>) = 11

\* the report of 2025-02-10 for the hire of 2024-03-10 shows 11
C9_Witness ==
    /\ employee = [hire_date |-> <<2024, 3, 10>>, on_list |-> FALSE]
    /\ today = <<2025, 2, 10>>
    /\ row.calc_date = today /\ ~row.error /\ ~row.regime_b
    /\ row.year_accrual = 11

\* C10: the regime of a report, and is_one_year_or_more at the current day,
\* is Regime B exactly when the employee is on the forced list or the tenure
\* in days at the calculation day is at least 365.
C10_RegimeSelection ==
    /\ is_one_year_or_more(employee.on_list, employee.hire_date, today)
          <=> (employee.on_list \/ DaysBetween(today, employee.hire_date) >= 365)
    /\ (row.year # 0 /\ ~row.error)
          => (row.regime_b
                <=> (employee.on_list
                       \/ DaysBetween(row.calc_date, employee.hire_date) >= 365))

\* a report made at exactly 365 days of tenure for an employee not on the list
C10_Witness ==
    /\ ~employee.on_list
    /\ row.year # 0 /\ ~row.error
    /\ row.calc_date = today
    /\ DaysBetween(today, employee.hire_date) = 365
    /\ row.regime_b


\* C11: for every report year, the row refresh_data shows with the stored
\* leave_remaining_by_year rows equals the row it shows when no such row is
\* stored: the stored balance of the previous year equals the computed one.
C11_SnapshotIsPureCache ==
    \A sel \in SelYears :
        Projection(employee, sel, today, attendance, leave_records, expirations,
                   remaining_by_year, manual_values).row
          = Projection(employee, sel, today, attendance, leave_records, expirations,
                       [y \in SnapYears |-> NoValue], manual_values).row

\* C12: for an employee hired before the report year, the carry_in
\* refresh_data computes for the year equals the remaining balance it shows
\* for the year before, from the same tables on the same day.
C12_CarryChainsFromPreviousYear ==
    \A sel \in SelYears :
        LET cur == Projection(employee, sel, today, attendance, leave_records,
                              expirations, [y \in SnapYears |-> NoValue],
                              manual_values).row
            prev == Projection(employee, sel - 1, today, attendance, leave_records,
                               expirations, remaining_by_year, manual_values).row
        IN  (employee.hire_date[1] < sel /\ ~cur.error /\ ~prev.error)
                => cur.carry_in = prev.remaining

\* C13: the carried amount after expiration processing of the row shown is
\* never negative.
C13_CarryAfterExpirationNonNegative ==
    (row.year # 0 /\ ~row.error) => row.carry_in_after_expiration >= 0

\* C14: for a report year from 2026 on whose anniversary has been reached and
\* a carry_in that is not negative, the expiration netted is max(0, carry_in -
\* usage between the previous anniversary and this one) and the carry after
\* expiration is carry_in minus that amount.
C14_ForfeitureIsUnusedCarry ==
    \A sel \in SelYears :
        LET r == Projection(employee, sel, today, attendance, leave_records,
                            expirations, remaining_by_year, manual_values).row
            hire == employee.hire_date
            anniversary == AnniversaryIn(sel, hire[2], hire[3])
            previous == AnniversaryIn(sel - 1, hire[2], hire[3])
            forfeited == Max(0, r.carry_in - Usage(attendance, previous, anniversary))
        IN  (/\ ~r.error /\ sel >= CutoverYear /\ hire[1] < sel
             /\ DateLE(anniversary, today) /\ r.carry_in >= 0)
                => /\ r.total_expired = forfeited
                   /\ r.carry_in_after_expiration = r.carry_in - forfeited

\* C15: once the anniversary of the report year has been reached, the
\* expiration netted against carry_in is the sum of the annual expiration
\* records dated from the last day of the previous year to that anniversary.
C15_NettedExpirationWindow ==
    \A sel \in SelYears :
        LET p == Projection(employee, sel, today, attendance, leave_records,
                            expirations, remaining_by_year, manual_values)
            hire == employee.hire_date
            anniversary == AnniversaryIn(sel, hire[2], hire[3])
        IN  (~p.row.error /\ hire[1] < sel /\ DateLE(anniversary, today))
                => p.row.total_expired
                     = SumExpired(p.exps, anniversary)
                       - SumExpired(p.exps, PrevDay(YearEnd(sel - 1)))


\* C16: for an employee who is not on the long-tenure list, once the date
\* handed to check_monthly_leave_expiration has reached the first anniversary
\* and min(11, monthly entitlement of the day before) minus the monthly leave
\* used is positive, the table the check returns holds exactly one monthly
\* record at that anniversary, with that amount.
C16_MonthlyExpirationRecordedOnce ==
    \A sel \in SelYears :
        LET hire == employee.hire_date
            one_year_date == AnniversaryIn(hire[1] + 1, hire[2], hire[3])
            amount == Halves(Min(MonthCap, calculate_monthly_leave(hire, PrevDay(one_year_date))))
                      - SumLeaveBefore(leave_records, "monthly", one_year_date)
            after == check_monthly_leave_expiration(expirations, employee,
                                                    leave_records, CheckDate(sel))
            at == {i \in 1..Len(after) : /\ after[i].leave_type = "monthly"
                                         /\ after[i].expiration_date = one_year_date}
        IN  (~employee.on_list /\ DateLE(one_year_date, CheckDate(sel)) /\ amount > 0)
                => /\ Cardinality(at) = 1
                   /\ \A i \in at : after[i].expired_amount = amount

\* C17: every record check_annual_leave_expiration adds is dated on or before
\* the date it was handed, every record the walk of refresh_data adds is dated
\* on or before today, and the walk of refresh_data that ends without an
\* error leaves no anniversary up to today with a positive amount unrecorded.
C17_WalksStopAtAsOf ==
    \A sel \in SelYears :
        LET checked == AfterChecks(expirations, employee, leave_records, sel)
            walked == AfterWalks(expirations, employee, leave_records, sel, today)
        IN  /\ \A i \in (Len(expirations) + 1)..Len(checked) :
                   DateLE(checked[i].expiration_date, CheckDate(sel))
            /\ \A i \in (Len(checked) + 1)..Len(walked.exps) :
                   DateLE(walked.exps[i].expiration_date, today)
            /\ ~walked.err =>
                   \A off \in 1..max_years :
                       (/\ DateLE(Anniversary(employee.hire_date, off), today)
                        /\ WalkExpired(employee, leave_records, off) > 0)
                           => ExistsExp(walked.exps, "annual",
                                        Anniversary(employee.hire_date, off))

\* a refresh has recorded the expiration of an anniversary that has passed and
\* none for the next anniversary, which is later than today
C17_Witness ==
    /\ row.year # 0 /\ ~row.error
    /\ \E off \in 1..max_years :
           /\ DateLE(Anniversary(employee.hire_date, off), today)
           /\ ExistsExp(expirations, "annual", Anniversary(employee.hire_date, off))
           /\ DateLT(today, Anniversary(employee.hire_date, off + 1))
           /\ ~ExistsExp(expirations, "annual", Anniversary(employee.hire_date, off + 1))


\* C18: for an employee hired on 29 February no refresh ends in the error of
\* an invalid calendar date: every anniversary is computed with the fallback
\* to 28 February.
C18_LeapDayHireNeverRaises ==
    (employee.hire_date[2] = 2 /\ employee.hire_date[3] = 29) => ~row.error


\* C19: after a refresh over several employees, every employee other than
\* the one whose computation raised the error has a row in the table.
C19_ErrorDoesNotBlockOtherRows ==
    batch.year # 0 =>
        \A k \in 1..Len(batch.staff) :
            k # batch.failed => \E i \in 1..Len(batch.shown) : batch.shown[i].emp = k


\* C20: the usage of the row shown is the usage derived from the attendance
\* entries plus the typed values of exactly those monthly cells of the report
\* year whose month starts after the anniversary in that year; the typed value
\* of the anniversary month or of an earlier month is left out.
C20_ManualAddedAfterAnniversaryOnly ==
    (row.year # 0 /\ ~row.error) =>
        LET anniversary == AnniversaryIn(row.year, employee.hire_date[2],
                                         employee.hire_date[3])
            counted == {x \in manual_values :
                           /\ x.year = row.year
                           /\ x.column_index >= 5 /\ x.column_index <= 16
                           /\ DateLT(anniversary, <<row.year, x.column_index - 4, 1>>)}
            total[T \in SUBSET counted] ==
                IF T = {} THEN 0
                ELSE LET x == CHOOSE y \in T : TRUE
                     IN  x.manual_value + total[T \ {x}]
        IN  row.year_usage = row.event_usage + total[counted]

\* the row shows usage from an attendance entry and a typed monthly value
\* that is counted on top of it
C20_Witness ==
    /\ row.year # 0 /\ ~row.error /\ row.event_usage > 0
    /\ \E x \in manual_values :
          /\ x.year = row.year /\ x.column_index >= 5 /\ x.column_index <= 16
          /\ x.manual_value > 0
          /\ DateLT(AnniversaryIn(row.year, employee.hire_date[2],
                                  employee.hire_date[3]),
                    <<row.year, x.column_index - 4, 1>>)
          /\ row.year_usage = row.event_usage + x.manual_value


\* C21: every typed monthly value of the report year that is left out of the
\* usage of the row shown, because its month is the anniversary month or an
\* earlier month, has had a warning printed by the computation of the row.
C21_NoOverrideDroppedSilently ==
    (row.year # 0 /\ ~row.error) =>
        \A x \in manual_values :
            (/\ x.year = row.year
             /\ x.column_index >= 5 /\ x.column_index <= 16
             /\ x.manual_value > 0
             /\ ~DateLT(AnniversaryIn(row.year, employee.hire_date[2],
                                      employee.hire_date[3]),
                        <<row.year, x.column_index - 4, 1>>))
                => x.column_index \in row.warned


\* C22: in the row shown, the usage of the year derived from the attendance
\* entries equals the sum of the twelve monthly usages: both are computed
\* over the same period.
C22_YearUsageIsSumOfMonths ==
    (row.year # 0 /\ ~row.error) =>
        LET sum[m \in 0..12] ==
                IF m = 0 THEN 0 ELSE row.monthly_usage[m] + sum[m - 1]
        IN  row.event_usage = sum[12]


\* C23: when the hire date of the employee is corrected and the refresh that
\* follows ends without an error, the row shown and the stored expiration
\* records are those refresh_data produces for the corrected hire date from
\* empty leave_expirations and leave_remaining_by_year tables.
C23_CorrectionEqualsFromScratch ==
    [][employee' # employee =>
          LET scratch == Projection(employee', row'.year, today', attendance',
                                    leave_records', << >>,
                                    [y \in SnapYears |-> NoValue], {})
          IN  ~row'.error =>
                  /\ row' = scratch.row
                  /\ {expirations'[i] : i \in 1..Len(expirations')}
                       = {scratch.exps[i] : i \in 1..Len(scratch.exps)}]_vars


\* C24: for every report year whose refresh ends without an error, the
\* entries of the expiration narrative of the row are exactly the stored
\* expiration records of the employee after that refresh: same leave type,
\* same boundary date, same amount.
C24_NarrativeIsStoredRecords ==
    \A sel \in SelYears :
        LET p == Projection(employee, sel, today, attendance, leave_records,
                            expirations, remaining_by_year, manual_values)
        IN  ~p.row.error =>
                p.row.narrative = {p.exps[i] : i \in 1..Len(p.exps)}


\* C25: for every as_of with fewer than 365 days of tenure, the first day of
\* a report year, the current day and the calculation day of a report among
\* them, calculate_monthly_leave returns a value in 0..11, and 0 when as_of
\* is earlier than the hire date; the accrual of a Regime-A row is in 0..11.
C25_MonthlyEntitlementNeverNegative ==
    /\ \A sel \in SelYears :
          \A as_of \in {YearStart(sel), today, CalcDate(sel, today)} :
              DaysBetween(as_of, employee.hire_date) < 365 =>
                  /\ calculate_monthly_leave(employee.hire_date, as_of) \in 0..11
                  /\ DateLT(as_of, employee.hire_date) =>
                         calculate_monthly_leave(employee.hire_date, as_of) = 0
    /\ (row.year # 0 /\ ~row.error /\ ~row.regime_b) => row.year_accrual \in 0..11


\* C26: the year usage, the year accrual and the remaining balance that
\* _update_summary_for_row leaves in the row after a monthly cell edit are
\* those refresh_data shows for the same report year, the same current date
\* and the tables as the edit left them.
C26_SummaryEqualsFullRefresh ==
    [][(\E month \in ManualMonths, amount \in ManualAmounts :
            on_cell_changed(month, amount)) =>
          LET full == Projection(employee', row'.year, today', attendance',
                                 leave_records', expirations',
                                 remaining_by_year', manual_values').row
          IN  ~full.error =>
                  /\ row'.year_usage = full.year_usage
                  /\ row'.year_accrual = full.year_accrual
                  /\ row'.remaining = full.remaining]_vars


\* C27: with the employee, the leave events and the current date fixed, the
\* stored expiration records (boundary dates and amounts) after two report
\* years have been viewed are the same whichever of the two is viewed first.
C27_ViewOrderIrrelevant ==
    \A a, b \in SelYears :
        LET View(sel, t) ==
                Projection(employee, sel, today, attendance, leave_records,
                           t.exps, t.snaps, t.mv)
            start == [exps |-> expirations, snaps |-> remaining_by_year,
                      mv |-> manual_values]
            ab == View(b, View(a, start))
            ba == View(a, View(b, start))
        IN  (/\ ~View(a, start).row.error /\ ~View(b, start).row.error
             /\ ~ab.row.error /\ ~ba.row.error)
                => {ab.exps[i] : i \in 1..Len(ab.exps)}
                     = {ba.exps[i] : i \in 1..Len(ba.exps)}


\* C28: in a refresh over several employees no expiration check fails on the
\* lock of the database: an insert of a check is never blocked by the writes
\* the connection of refresh_data made for earlier employees and has not
\* committed.
C28_ChecksNeverBlocked ==
    batch.cause # "database is locked"

\* C29: whatever report years have been refreshed, no stored expiration
\* record is dated after the current date.
C29_NoRecordAfterToday ==
    \A i \in 1..Len(expirations) : DateLE(expirations[i].expiration_date, today)


\* C30: a save of the pending attendance edits is all-or-nothing.  When the
\* processing of a change fails, the attendance and leave records are as
\* before the save and pending_changes is kept; when every change is
\* processed, the attendance row and the leave record of each change are
\* stored and pending_changes is emptied.
C30_SaveAllOrNothing ==
    [][(\E fail \in 0..MaxPending, stage \in {"attendance", "leave"} :
            save_pending_changes(fail, stage)) =>
          IF editor'.message = "error"
          THEN /\ attendance' = attendance
               /\ leave_records' = leave_records
               /\ editor'.pending_changes = editor.pending_changes
          ELSE /\ \A i \in 1..Len(editor.pending_changes) :
                     LET c == editor.pending_changes[i]
                     IN  /\ c \in attendance'
                         /\ WritesLeave(c) =>
                               \E r \in leave_records' :
                                   /\ r.leave_date = c.work_date
                                   /\ r.leave_type = c.leave_type
               /\ editor'.pending_changes = << >>]_vars

=============================================================================
